---- MODULE Spec2Model ----
(***************************************************************************)
(* The message pipeline of app/main.py: the HTTP front door               *)
(* (SimpleRouter), the TCP relay of a submission to the socket server,    *)
(* the socket server's accept loop and its per-connection handler         *)
(* (handle_client), and the document store the handler inserts into.      *)
(*                                                                         *)
(* Text is a sequence of one-character strings, a form body is the        *)
(* sequence of its decoded key/value pairs, and the bytes on the TCP      *)
(* connection are a sequence of lexical tokens of the JSON text.          *)
(***************************************************************************)
EXTENDS Naturals, Sequences, FiniteSets

VARIABLES
    mpc,      \* __main__: "boot", "serving", "closing", "exited"
    wstate,   \* socket server process: "notstarted", "starting", "listening", "dead"
    handles,  \* number of MongoClient handles the worker process has built
    clock,    \* the worker's clock, read by datetime.now()
    backlog,  \* established connections srv.accept() has not returned yet
    rpc,      \* per HTTP request: position of its handler thread
    req,      \* per HTTP request: the request as received
    resp,     \* per HTTP request: the status lines written, in order
    nconn,    \* per HTTP request: calls of socket.create_connection
    dpc,      \* per direct TCP client: its position
    cst,      \* per connection: "none", "pending", "accepted", "reset"
    wire,     \* per connection: tokens written by the peer, not yet received
    eof,      \* per connection: the peer has closed its side
    hpc,      \* per connection: position of the handle_client thread
    chunks,   \* per connection: handle_client's chunks, joined
    ncall,    \* per connection: calls of col.insert_one
    doc,      \* per connection: the document handle_client built
    sink      \* the collection: the inserted documents, in insertion order

vars == <<mpc, wstate, handles, clock, backlog, rpc, req, resp, nconn, dpc,
          cst, wire, eof, hpc, chunks, ncall, doc, sink>>

-----------------------------------------------------------------------------
(* Bounds of the model and constants of the program.                       *)

\* HTTP requests of a run of Spec.
NumReq == 2
\* Direct TCP clients of a run of SpecTcp.
NumDirect == 2
\* Submissions of a run of LiveSpec.
NumLive == 1
\* Simultaneous submissions of a run of SpecBurst.
NumBurst == 6
\* srv.listen(5)
Backlog == 5
\* conn.recv(4096): the most one recv returns, in tokens.
RecvSize == 4

-----------------------------------------------------------------------------
(* Text and str.strip().                                                   *)

Whitespace == {" ", "\n"}

RECURSIVE LStrip(_)
LStrip(s) ==
    IF s # <<>> /\ Head(s) \in Whitespace THEN LStrip(Tail(s)) ELSE s

RECURSIVE RStrip(_)
RStrip(s) ==
    IF s # <<>> /\ s[Len(s)] \in Whitespace
    THEN RStrip(SubSeq(s, 1, Len(s) - 1))
    ELSE s

\* A mutant of Strip: only the leading whitespace is removed.
StripLeftOnly(s) == LStrip(s)

Strip(s) == RStrip(LStrip(s))

-----------------------------------------------------------------------------
(* urllib.parse.parse_qs and the form lookups of do_POST.                  *)

Pair(k, v) == [k |-> k, v |-> v]

IsNonBlank(p) == p.v # <<>>

\* parse_qs(body): keep_blank_values is False, so a pair with an empty value is
\* dropped; the values of a key keep their order.
ParseQs(body) == SelectSeq(body, IsNonBlank)

RECURSIVE ValuesOf(_, _)
ValuesOf(form, key) ==
    IF form = <<>> THEN <<>>
    ELSE IF Head(form).k = key
         THEN <<Head(form).v>> \o ValuesOf(Tail(form), key)
         ELSE ValuesOf(Tail(form), key)

\* A mutant of FormGet: the last value of a repeated key is taken.
FormGetLast(form, key) ==
    LET vs == ValuesOf(form, key) IN IF vs = <<>> THEN <<>> ELSE vs[Len(vs)]

\* form.get(key, [""])[0]
FormGet(form, key) ==
    LET vs == ValuesOf(form, key) IN IF vs = <<>> THEN <<>> ELSE vs[1]

\* The username and message do_POST relays for a form body.
Submission(body) ==
    LET form == ParseQs(body)
    IN  [username |-> Strip(FormGet(form, "username")),
         message  |-> Strip(FormGet(form, "message"))]

-----------------------------------------------------------------------------
(* JSON text as tokens: json.dumps, bytes.decode and json.loads.           *)

Tok(t, k, ty, s) == [t |-> t, k |-> k, ty |-> ty, s |-> s]

LBrace == Tok("{", "", "", <<>>)
RBrace == Tok("}", "", "", <<>>)
LBracket == Tok("[", "", "", <<>>)
RBracket == Tok("]", "", "", <<>>)
\* A member "key": value of an object; ty and s are the value's type and text.
Member(k, ty, s) == Tok("member", k, ty, s)
\* A value outside an object.
Value(ty, s) == Tok("value", "", ty, s)
\* Text that is no JSON token.
Junk == Tok("junk", "", "", <<>>)
\* A byte sequence that is not valid UTF-8.
BadBytes == Tok("bad", "", "", <<>>)

\* json.dumps({"username": username, "message": message}).encode("utf-8")
JsonDumps(sub) ==
    <<LBrace, Member("username", "str", sub.username),
      Member("message", "str", sub.message), RBrace>>

DecodeTok(tok) == IF tok.t = "bad" THEN Junk ELSE tok

\* bytes.decode("utf-8", errors="replace"): invalid bytes become U+FFFD.
Utf8Decode(bytes) == [i \in 1..Len(bytes) |-> DecodeTok(bytes[i])]

AllAre(seq, t) == \A i \in 1..Len(seq) : seq[i].t = t

\* json.loads(raw): an object, another JSON value, or JSONDecodeError.
JsonLoads(raw) ==
    LET n == Len(raw) IN
    IF n >= 2 /\ raw[1] = LBrace /\ raw[n] = RBrace
         /\ AllAre(SubSeq(raw, 2, n - 1), "member")
    THEN [kind |-> "object", members |-> SubSeq(raw, 2, n - 1)]
    ELSE IF n >= 2 /\ raw[1] = LBracket /\ raw[n] = RBracket
              /\ AllAre(SubSeq(raw, 2, n - 1), "value")
    THEN [kind |-> "list", members |-> SubSeq(raw, 2, n - 1)]
    ELSE IF n = 1 /\ raw[1].t = "value"
    THEN [kind |-> "scalar", members |-> raw]
    ELSE [kind |-> "error", members |-> <<>>]

EmptyDict == [kind |-> "object", members |-> <<>>]

\* A mutant of ParsePayload: a payload that does not parse is given up.
ParsePayloadStrict(raw) == JsonLoads(raw)

\* doc_in of handle_client: {} for an empty payload and on JSONDecodeError.
ParsePayload(raw) ==
    IF raw = <<>> THEN EmptyDict
    ELSE LET v == JsonLoads(raw) IN IF v.kind = "error" THEN EmptyDict ELSE v

\* The JSON value None.
NoneValue == [ty |-> "null", s |-> <<>>]

RECURSIVE DictGet(_, _)
\* dict.get(key): the last member of that key decides; None when absent.
DictGet(members, key) ==
    IF members = <<>> THEN NoneValue
    ELSE LET last == members[Len(members)] IN
         IF last.k = key THEN [ty |-> last.ty, s |-> last.s]
         ELSE DictGet(SubSeq(members, 1, Len(members) - 1), key)

\* Python's truth value of a JSON value.
Truthy(v) ==
    CASE v.ty = "str"  -> v.s # <<>>
      [] v.ty = "num"  -> v.s # <<"0">>
      [] v.ty = "list" -> v.s # <<>>
      [] OTHER         -> FALSE

\* (doc_in.get(key) or ""): the value .strip() is called on.
FieldOrEmpty(members, key) ==
    LET v == DictGet(members, key)
    IN  IF Truthy(v) THEN v ELSE [ty |-> "str", s |-> <<>>]

\* Whether building doc raises AttributeError: doc_in has no get, or a field
\* is a truthy value without strip.
BuildRaises(docin) ==
    \/ docin.kind # "object"
    \/ FieldOrEmpty(docin.members, "username").ty # "str"
    \/ FieldOrEmpty(docin.members, "message").ty # "str"

\* The document handle_client builds at time now.
BuildDoc(docin, now) ==
    [date     |-> now,
     username |-> Strip(FieldOrEmpty(docin.members, "username").s),
     message  |-> Strip(FieldOrEmpty(docin.members, "message").s)]

-----------------------------------------------------------------------------
(* The requests and payloads the environment may send.                     *)

Req(method, path, clen, body) ==
    [method |-> method, path |-> path, clen |-> clen, body |-> body]

NoReq == Req("", "", "", <<>>)

\* The document of a connection whose handler has built none.
NoDoc == [date |-> 0, username |-> <<>>, message |-> <<>>]

\* username=%0Aa+b+&message=+b
FormPadded ==
    <<Pair("username", <<"\n", "a", " ", "b", " ">>), Pair("message", <<" ", "b">>)>>
\* username=a&username=b (no message field)
FormRepeated == <<Pair("username", <<"a">>), Pair("username", <<"b">>)>>
\* username=&username=b&message=a
FormBlankFirst ==
    <<Pair("username", <<>>), Pair("username", <<"b">>), Pair("message", <<"a">>)>>

Forms == {FormPadded, FormRepeated, FormBlankFirst}

GetPaths == {"/", "/logo.png", "/message", "/nope"}
PostPaths == {"/"}

HttpInputs ==
    {Req("GET", p, "ok", <<>>) : p \in GetPaths}
    \cup {Req("POST", p, "ok", FormPadded) : p \in PostPaths}
    \cup {Req("POST", "/message", "ok", f) : f \in Forms}
    \cup {Req("POST", "/message", "bad", FormPadded)}

\* What a direct client of the TCP listener may write before it closes.
DirectPayloads ==
    { <<Junk>>,
      <<BadBytes>>,
      <<LBrace, Member("username", "str", <<"a">>)>>,
      <<LBracket, Value("num", <<"1">>), RBracket>>,
      <<Value("str", <<"a">>)>>,
      <<LBrace, Member("username", "num", <<"5">>), RBrace>>,
      <<LBrace, Member("username", "num", <<"0">>),
        Member("message", "null", <<>>), RBrace>>,
      <<LBrace, Member("date", "str", <<"x">>),
        Member("username", "str", <<" ", "a">>),
        Member("message", "str", <<"b", "\n">>), RBrace>> }

-----------------------------------------------------------------------------
(* The state.                                                              *)

Reqs == DOMAIN rpc
Directs == DOMAIN dpc
Conns == DOMAIN cst

DirectId(i) == 100 + i

InitFor(H, D) ==
    /\ mpc = "boot"
    /\ wstate = "notstarted"
    /\ handles = 0
    /\ clock = 1
    /\ backlog = <<>>
    /\ rpc = [r \in H |-> "idle"]
    /\ req = [r \in H |-> NoReq]
    /\ resp = [r \in H |-> <<>>]
    /\ nconn = [r \in H |-> 0]
    /\ dpc = [d \in D |-> "idle"]
    /\ cst = [c \in H \cup D |-> "none"]
    /\ wire = [c \in H \cup D |-> <<>>]
    /\ eof = [c \in H \cup D |-> FALSE]
    /\ hpc = [c \in H \cup D |-> "none"]
    /\ chunks = [c \in H \cup D |-> <<>>]
    /\ ncall = [c \in H \cup D |-> 0]
    /\ doc = [c \in H \cup D |-> NoDoc]
    /\ sink = <<>>

\* A state after boot: the HTTP server serves and the worker listens.
Serving(H) ==
    /\ mpc = "serving"
    /\ wstate = "listening"
    /\ handles = 1
    /\ clock = 1
    /\ backlog = <<>>
    /\ rpc = [r \in H |-> "idle"]
    /\ req = [r \in H |-> NoReq]
    /\ resp = [r \in H |-> <<>>]
    /\ nconn = [r \in H |-> 0]
    /\ dpc = [d \in {} |-> "idle"]
    /\ cst = [c \in H |-> "none"]
    /\ wire = [c \in H |-> <<>>]
    /\ eof = [c \in H |-> FALSE]
    /\ hpc = [c \in H |-> "none"]
    /\ chunks = [c \in H |-> <<>>]
    /\ ncall = [c \in H |-> 0]
    /\ doc = [c \in H |-> NoDoc]
    /\ sink = <<>>

mainVars == <<mpc>>
workerVars == <<wstate, handles>>
httpVars == <<rpc, req, resp, nconn>>
connVars == <<cst, wire, eof, backlog>>
handlerVars == <<hpc, chunks, ncall, doc, clock, sink>>

-----------------------------------------------------------------------------
(* __main__: the worker process is started, the HTTP server serves, and on *)
(* leaving serve_forever the server is closed and the worker terminated.   *)

\* p.start(), ThreadingHTTPServer(...), serve_forever()
Boot ==
    /\ mpc = "boot"
    /\ mpc' = "serving"
    /\ wstate' = "starting"
    /\ UNCHANGED <<handles, httpVars, dpc, connVars, handlerVars>>

\* serve_forever() ends (KeyboardInterrupt or another exit).
ServeExit ==
    /\ mpc = "serving"
    /\ mpc' = "closing"
    /\ UNCHANGED <<workerVars, httpVars, dpc, connVars, handlerVars>>

\* What the end of the worker process does to its connections and threads.
ResetConns == [c \in Conns |-> IF cst[c] \in {"pending", "accepted"} THEN "reset" ELSE cst[c]]
KillHandlers == [c \in Conns |-> IF hpc[c] \in {"reading", "inserting"} THEN "killed" ELSE hpc[c]]

\* A mutant of AfterTerminate: the finally block leaves the worker alone.
AfterTerminateSkipped(w) == w

\* The worker process after `if p.is_alive(): p.terminate()`.
AfterTerminate(w) == "dead"

\* finally: server.server_close(); if p.is_alive(): p.terminate(); the
\* process then exits and its daemon handler threads end with it.
Finalize ==
    /\ mpc = "closing"
    /\ mpc' = "exited"
    /\ wstate' = AfterTerminate(wstate)
    /\ cst' = ResetConns
    /\ hpc' = KillHandlers
    /\ backlog' = <<>>
    /\ rpc' = [r \in Reqs |-> IF rpc[r] \in {"blocked", "connected", "sent"}
                              THEN "killed" ELSE rpc[r]]
    /\ UNCHANGED <<handles, req, resp, nconn, dpc, wire, eof, chunks, ncall,
                   doc, clock, sink>>

-----------------------------------------------------------------------------
(* socket_server.                                                          *)

\* MongoClient(MONGO_URI), bind, srv.listen(5)
WorkerListen ==
    /\ wstate = "starting"
    /\ wstate' = "listening"
    /\ handles' = handles + 1
    /\ UNCHANGED <<mainVars, httpVars, dpc, connVars, handlerVars>>

\* The worker process ends on its own: an exception leaves socket_server
\* (bind, accept), or the process is killed.
WorkerCrash ==
    /\ wstate \in {"starting", "listening"}
    /\ wstate' = "dead"
    /\ cst' = ResetConns
    /\ hpc' = KillHandlers
    /\ backlog' = <<>>
    /\ UNCHANGED <<mainVars, handles, httpVars, dpc, wire, eof, chunks, ncall,
                   doc, clock, sink>>

\* A mutant of CanAccept: the accept loop calls handle_client itself.
CanAcceptSerial(active) == active = {}

\* Whether the accept loop can take the next connection while the handlers
\* in `active` are running: each connection gets a thread of its own.
CanAccept(active) == TRUE

ActiveHandlers == {c \in Conns : hpc[c] \in {"reading", "inserting"}}

\* conn, addr = srv.accept(); threading.Thread(target=handle_client, ...).start()
Accept ==
    /\ wstate = "listening"
    /\ backlog # <<>>
    /\ CanAccept(ActiveHandlers)
    /\ LET c == Head(backlog) IN
        /\ cst' = [cst EXCEPT ![c] = "accepted"]
        /\ hpc' = [hpc EXCEPT ![c] = "reading"]
    /\ backlog' = Tail(backlog)
    /\ UNCHANGED <<mainVars, workerVars, httpVars, dpc, wire, eof, chunks,
                   ncall, doc, clock, sink>>

-----------------------------------------------------------------------------
(* handle_client.                                                          *)

Min(a, b) == IF a < b THEN a ELSE b

\* data = conn.recv(4096) returns data: chunks.append(data)
Recv(c) ==
    /\ hpc[c] = "reading"
    /\ wire[c] # <<>>
    /\ LET n == Min(RecvSize, Len(wire[c])) IN
        /\ chunks' = [chunks EXCEPT ![c] = @ \o SubSeq(wire[c], 1, n)]
        /\ wire' = [wire EXCEPT ![c] = SubSeq(@, n + 1, Len(@))]
    /\ UNCHANGED <<mainVars, workerVars, httpVars, dpc, cst, eof, backlog, hpc,
                   ncall, doc, clock, sink>>

\* The worker's clock advances. Only a reading that some handler has taken
\* is told apart from the next one.
Tick ==
    /\ \E c \in Conns : ncall[c] > 0 /\ doc[c].date = clock
    /\ clock' = clock + 1
    /\ UNCHANGED <<mainVars, workerVars, httpVars, dpc, connVars, hpc, chunks,
                   ncall, doc, sink>>

\* Whether the read loop of the handler ends: recv returned b"".
ReadDone(c) == wire[c] = <<>> /\ eof[c]

\* A mutant of InsertCalls: the insert is tried a second time.
InsertCallsRetry == 1 + 1

\* The number of calls of col.insert_one a handler makes for its document.
InsertCalls == 1

\* A mutant of SinkHandle: the handler builds a MongoClient of its own.
SinkHandlePerMessage(h) == h + 1

\* The handles of the process once a handler has the handle of its insert:
\* handle_client uses the col it was started with and builds none.
SinkHandle(h) == h

\* recv returns b"": the payload is decoded and parsed, the document is built
\* with the time of now, and col.insert_one(doc) is called. An AttributeError
\* of the build ends the thread (the with block closes the connection).
RecvEof(c) ==
    /\ hpc[c] = "reading"
    /\ ReadDone(c)
    /\ handles' = SinkHandle(handles)
    /\ LET docin == ParsePayload(Utf8Decode(chunks[c])) IN
        IF BuildRaises(docin)
        THEN /\ hpc' = [hpc EXCEPT ![c] = "crashed"]
             /\ UNCHANGED <<doc, ncall>>
        ELSE /\ hpc' = [hpc EXCEPT ![c] = "inserting"]
             /\ doc' = [doc EXCEPT ![c] = BuildDoc(docin, clock)]
             /\ ncall' = [ncall EXCEPT ![c] = @ + InsertCalls]
    /\ UNCHANGED <<mainVars, wstate, httpVars, dpc, connVars, chunks, clock,
                   sink>>

\* A mutant of Inserted: the document is stored twice.
InsertedTwice(d, c) ==
    Append(Append(sink, [doc |-> d, conn |-> c]), [doc |-> d, conn |-> c])

\* What the collection holds after insert_one(d) of connection c succeeded.
Inserted(d, c) == Append(sink, [doc |-> d, conn |-> c])

\* col.insert_one(doc) returns: the document is stored; the with block closes
\* the connection.
InsertOk(c) ==
    /\ hpc[c] = "inserting"
    /\ sink' = Inserted(doc[c], c)
    /\ hpc' = [hpc EXCEPT ![c] = "closed"]
    /\ UNCHANGED <<mainVars, workerVars, httpVars, dpc, connVars, chunks, ncall,
                   doc, clock>>

\* A mutant of AfterInsertError: the exception is not caught and ends the
\* thread.
AfterInsertErrorUncaught == "crashed"

\* The position of a handler whose insert_one raised: except Exception: pass.
AfterInsertError == "closed"

\* col.insert_one(doc) raises: nothing is stored, the exception is dropped.
InsertFail(c) ==
    /\ hpc[c] = "inserting"
    /\ hpc' = [hpc EXCEPT ![c] = AfterInsertError]
    /\ UNCHANGED <<mainVars, workerVars, httpVars, dpc, connVars, chunks, ncall,
                   doc, clock, sink>>

-----------------------------------------------------------------------------
(* SimpleRouter.                                                           *)

\* The file do_GET serves for a path; "" for a path outside the routes.
GetFile(path) ==
    CASE path \in {"/", "/index.html"} -> "index.html"
      [] path = "/message.html"        -> "message.html"
      [] path = "/style.css"           -> "static/style.css"
      [] path = "/logo.png"            -> "static/logo.png"
      [] OTHER                         -> ""

\* _respond_404: error.html with status 404, or send_error(404).
Respond404(errorPage) == 404

\* _respond_file: the status written, given whether the file can be read.
RespondFile(exists, status, errorPage) ==
    IF exists THEN status ELSE Respond404(errorPage)

\* do_GET
GetStatus(path, exists, errorPage) ==
    IF GetFile(path) # "" THEN RespondFile(exists, 200, errorPage)
    ELSE Respond404(errorPage)

\* The handler threads at work.
Busy == {r \in Reqs : rpc[r] \in {"blocked", "connected", "sent"}}

\* A mutant of CanServe: HTTPServer, which handles one request at a time.
CanServeSerial(busy) == busy = {}

\* Whether the server takes a new request while the handlers in `busy` are at
\* work: ThreadingHTTPServer gives each request a thread of its own.
CanServe(busy) == TRUE

\* A request is received: requests are numbered in the order they arrive.
Arrives(r) ==
    /\ mpc = "serving"
    /\ rpc[r] = "idle"
    /\ \A q \in Reqs : q < r => rpc[q] # "idle"
    /\ CanServe(Busy)

Answer(r, status) == resp' = [resp EXCEPT ![r] = Append(@, status)]

Get(r, inp, exists, errorPage) ==
    /\ Arrives(r)
    /\ inp.method = "GET"
    /\ req' = [req EXCEPT ![r] = inp]
    /\ Answer(r, GetStatus(inp.path, exists, errorPage))
    /\ rpc' = [rpc EXCEPT ![r] = "done"]
    /\ UNCHANGED <<mainVars, workerVars, nconn, dpc, connVars, handlerVars>>

\* A mutant of IsRelayPath: the path is not looked at.
IsRelayPathAny(path) == TRUE

\* Whether do_POST relays a request of this path.
IsRelayPath(path) == path = "/message"

\* do_POST of another path than /message
PostNotFound(r, inp, errorPage) ==
    /\ Arrives(r)
    /\ inp.method = "POST"
    /\ ~IsRelayPath(inp.path)
    /\ req' = [req EXCEPT ![r] = inp]
    /\ Answer(r, Respond404(errorPage))
    /\ rpc' = [rpc EXCEPT ![r] = "done"]
    /\ UNCHANGED <<mainVars, workerVars, nconn, dpc, connVars, handlerVars>>

\* do_POST /message whose Content-Length is no number: int() raises
\* ValueError, the handler thread ends and nothing is written.
PostBadLength(r, inp) ==
    /\ Arrives(r)
    /\ inp.method = "POST"
    /\ IsRelayPath(inp.path)
    /\ inp.clen = "bad"
    /\ req' = [req EXCEPT ![r] = inp]
    /\ rpc' = [rpc EXCEPT ![r] = "crashed"]
    /\ UNCHANGED <<mainVars, workerVars, resp, nconn, dpc, connVars, handlerVars>>

\* payload of do_POST
Payload(r) == JsonDumps(Submission(req[r].body))

\* socket.create_connection: refused without a listener, established when the
\* listen queue has room, waiting otherwise.
ConnectOutcome ==
    CASE wstate # "listening"     -> "refused"
      [] Len(backlog) >= Backlog  -> "blocked"
      [] OTHER                    -> "connected"

\* A mutant of RelayStatus: the except branch redirects as well.
RelayStatusRedirect(ok) == 302

\* The status do_POST writes for an outcome of the relay.
RelayStatus(ok) == IF ok THEN 302 ELSE 500

\* do_POST /message up to socket.create_connection
PostRelay(r, inp) ==
    /\ Arrives(r)
    /\ inp.method = "POST"
    /\ IsRelayPath(inp.path)
    /\ inp.clen = "ok"
    /\ req' = [req EXCEPT ![r] = inp]
    /\ nconn' = [nconn EXCEPT ![r] = @ + 1]
    /\ LET out == ConnectOutcome IN
        /\ rpc' = [rpc EXCEPT ![r] = IF out = "refused" THEN "done" ELSE out]
        /\ resp' = [resp EXCEPT ![r] = IF out = "refused"
                                       THEN Append(@, RelayStatus(FALSE)) ELSE @]
        /\ cst' = [cst EXCEPT ![r] = IF out = "connected" THEN "pending" ELSE @]
        /\ backlog' = IF out = "connected" THEN Append(backlog, r) ELSE backlog
    /\ UNCHANGED <<mainVars, workerVars, dpc, wire, eof, handlerVars>>

\* The waiting connect is established: the listen queue has room again.
ConnectLate(r) ==
    /\ rpc[r] = "blocked"
    /\ ConnectOutcome = "connected"
    /\ rpc' = [rpc EXCEPT ![r] = "connected"]
    /\ cst' = [cst EXCEPT ![r] = "pending"]
    /\ backlog' = Append(backlog, r)
    /\ UNCHANGED <<mainVars, workerVars, req, resp, nconn, dpc, wire, eof,
                   handlerVars>>

\* A mutant of ConnectTimeout: create_connection is called without a timeout,
\* and a waiting connect never gives up.
ConnectWaitsForever(r) == FALSE /\ UNCHANGED vars

\* The waiting connect ends with an error: the 5 s timeout, or a refusal once
\* the listener is gone.
ConnectTimeout(r) ==
    /\ rpc[r] = "blocked"
    /\ rpc' = [rpc EXCEPT ![r] = "done"]
    /\ Answer(r, RelayStatus(FALSE))
    /\ UNCHANGED <<mainVars, workerVars, req, nconn, dpc, connVars, handlerVars>>

\* What reaches the peer's receive queue when toks are written.
Written(c, toks) == IF cst[c] = "reset" THEN wire[c] ELSE wire[c] \o toks

\* s.sendall(payload) returns
SendAll(r) ==
    /\ rpc[r] = "connected"
    /\ wire' = [wire EXCEPT ![r] = Written(r, Payload(r))]
    /\ rpc' = [rpc EXCEPT ![r] = "sent"]
    /\ UNCHANGED <<mainVars, workerVars, req, resp, nconn, dpc, cst, eof,
                   backlog, handlerVars>>

\* The numbers of tokens a failing sendall may have written.
SendCuts == {0, 2}

\* s.sendall(payload) raises after k tokens were written (the timeout while
\* the peer does not read, or a reset): the with block closes the socket and
\* the except branch answers 500.
SendFail(r, k) ==
    /\ rpc[r] = "connected"
    /\ cst[r] \in {"pending", "reset"}
    /\ k < Len(Payload(r))
    /\ wire' = [wire EXCEPT ![r] = Written(r, SubSeq(Payload(r), 1, k))]
    /\ eof' = [eof EXCEPT ![r] = TRUE]
    /\ rpc' = [rpc EXCEPT ![r] = "done"]
    /\ Answer(r, RelayStatus(FALSE))
    /\ UNCHANGED <<mainVars, workerVars, req, nconn, dpc, cst, backlog,
                   handlerVars>>

\* A mutant of AfterSend: do_POST waits until the worker is done with the
\* connection before it leaves the with block.
AfterSendAwaitsWorker(h) == h \in {"closed", "crashed", "killed"}

\* Whether do_POST goes on after sendall, the handler of the connection being
\* at h: nothing is read from the socket, the with block ends at once.
AfterSend(h) == TRUE

\* The with block closes the socket after sendall returned; do_POST answers
\* 302, or 500 when close raised.
CloseRespond(r, ok) ==
    /\ rpc[r] = "sent"
    /\ AfterSend(hpc[r])
    /\ eof' = [eof EXCEPT ![r] = TRUE]
    /\ rpc' = [rpc EXCEPT ![r] = "done"]
    /\ Answer(r, RelayStatus(ok))
    /\ UNCHANGED <<mainVars, workerVars, req, nconn, dpc, cst, wire, backlog,
                   handlerVars>>

-----------------------------------------------------------------------------
(* A client that talks to the TCP listener directly.                       *)

DirectConnect(d) ==
    /\ dpc[d] = "idle"
    /\ \A e \in Directs : e < d => dpc[e] # "idle"
    /\ ConnectOutcome # "blocked"
    /\ IF ConnectOutcome = "connected"
       THEN /\ dpc' = [dpc EXCEPT ![d] = "open"]
            /\ cst' = [cst EXCEPT ![d] = "pending"]
            /\ backlog' = Append(backlog, d)
       ELSE /\ dpc' = [dpc EXCEPT ![d] = "refused"]
            /\ UNCHANGED <<cst, backlog>>
    /\ UNCHANGED <<mainVars, workerVars, httpVars, wire, eof, handlerVars>>

DirectSend(d, toks) ==
    /\ dpc[d] = "open"
    /\ wire' = [wire EXCEPT ![d] = Written(d, toks)]
    /\ dpc' = [dpc EXCEPT ![d] = "sent"]
    /\ UNCHANGED <<mainVars, workerVars, httpVars, cst, eof, backlog,
                   handlerVars>>

\* The client closes its write side; a client that never does stalls.
DirectClose(d) ==
    /\ dpc[d] \in {"open", "sent"}
    /\ eof' = [eof EXCEPT ![d] = TRUE]
    /\ dpc' = [dpc EXCEPT ![d] = "closed"]
    /\ UNCHANGED <<mainVars, workerVars, httpVars, cst, wire, backlog,
                   handlerVars>>

-----------------------------------------------------------------------------
(* The specifications.                                                     *)

Main == Boot \/ ServeExit \/ Finalize

Worker ==
    \/ WorkerListen
    \/ WorkerCrash
    \/ Accept
    \/ Tick
    \/ \E c \in Conns : Recv(c) \/ RecvEof(c) \/ InsertOk(c) \/ InsertFail(c)

Relay ==
    \E r \in Reqs :
        \/ SendAll(r)
        \/ \E k \in SendCuts : SendFail(r, k)
        \/ \E ok \in BOOLEAN : CloseRespond(r, ok)

Http ==
    \E r \in Reqs, inp \in HttpInputs :
        \/ \E exists \in BOOLEAN, errorPage \in BOOLEAN : Get(r, inp, exists, errorPage)
        \/ \E errorPage \in BOOLEAN : PostNotFound(r, inp, errorPage)
        \/ PostBadLength(r, inp)
        \/ PostRelay(r, inp)

Direct ==
    \E d \in Directs :
        \/ DirectConnect(d)
        \/ \E toks \in DirectPayloads : DirectSend(d, toks)
        \/ DirectClose(d)

\* The front door with NumReq requests, and the worker behind it.
Init == InitFor(1..NumReq, {})
Next == Main \/ Worker \/ Http \/ Relay
Spec == Init /\ [][Next]_vars

\* The worker with NumDirect direct clients of its listener.
InitTcp == InitFor({}, {DirectId(i) : i \in 1..NumDirect})
NextTcp == Main \/ Worker \/ Direct
SpecTcp == InitTcp /\ [][NextTcp]_vars

\* NumBurst submissions at once, the worker listening and the sink accepting
\* every insert.
BurstInput(r) ==
    Req("POST", "/message", "ok", IF r % 2 = 1 THEN FormPadded ELSE FormRepeated)

InitBurst == Serving(1..NumBurst)

NextBurst ==
    \/ \E r \in Reqs : PostRelay(r, BurstInput(r))
    \/ \E r \in Reqs : ConnectLate(r)
    \/ \E r \in Reqs : ConnectTimeout(r)
    \/ \E r \in Reqs : SendAll(r)
    \/ \E r \in Reqs : CloseRespond(r, TRUE)
    \/ Accept
    \/ \E c \in Conns : Recv(c)
    \/ \E c \in Conns : RecvEof(c)
    \/ \E c \in Conns : InsertOk(c)

SpecBurst == InitBurst /\ [][NextBurst]_vars

\* A step of a thread of the worker: the accept loop or a handler.
WorkerStep ==
    \/ Accept
    \/ \E c \in Conns : Recv(c) \/ RecvEof(c) \/ InsertOk(c)

\* Submissions to a serving front door whose worker keeps running, the
\* threads of the worker being scheduled: a step of the worker that stays
\* possible is taken.
InitLive == Serving(1..NumLive)
NextLive ==
    \/ \E r \in Reqs, inp \in HttpInputs : PostRelay(r, inp)
    \/ Relay
    \/ WorkerCrash
    \/ Accept
    \/ \E c \in Conns : Recv(c) \/ RecvEof(c) \/ InsertOk(c) \/ InsertFail(c)
LiveSpec == InitLive /\ [][NextLive]_vars /\ WF_vars(WorkerStep)

\* A step of an HTTP handler thread inside its relay.
HttpStep ==
    \E r \in Reqs :
        \/ ConnectLate(r)
        \/ ConnectTimeout(r)
        \/ SendAll(r)
        \/ \E k \in SendCuts : SendFail(r, k)
        \/ \E ok \in BOOLEAN : CloseRespond(r, ok)

\* The clients that fill the listen queue of the worker.
Stallers == {DirectId(i) : i \in 1..Backlog}

\* Submissions to a worker whose listen queue is full of connections of
\* clients that stall, and that does what it likes: it may accept or not, and
\* end at any time. The HTTP handler threads are scheduled and their timeouts
\* fire: a step of a relay that stays possible is taken.
InitStall ==
    /\ mpc = "serving"
    /\ wstate = "listening"
    /\ handles = 1
    /\ clock = 1
    /\ backlog = [i \in 1..Backlog |-> DirectId(i)]
    /\ rpc = [r \in 1..NumLive |-> "idle"]
    /\ req = [r \in 1..NumLive |-> NoReq]
    /\ resp = [r \in 1..NumLive |-> <<>>]
    /\ nconn = [r \in 1..NumLive |-> 0]
    /\ dpc = [d \in Stallers |-> "open"]
    /\ cst = [c \in (1..NumLive) \cup Stallers |->
                 IF c \in Stallers THEN "pending" ELSE "none"]
    /\ wire = [c \in (1..NumLive) \cup Stallers |-> <<>>]
    /\ eof = [c \in (1..NumLive) \cup Stallers |-> FALSE]
    /\ hpc = [c \in (1..NumLive) \cup Stallers |-> "none"]
    /\ chunks = [c \in (1..NumLive) \cup Stallers |-> <<>>]
    /\ ncall = [c \in (1..NumLive) \cup Stallers |-> 0]
    /\ doc = [c \in (1..NumLive) \cup Stallers |-> NoDoc]
    /\ sink = <<>>

NextStall ==
    \/ \E r \in Reqs : PostRelay(r, BurstInput(r))
    \/ HttpStep
    \/ Accept
    \/ WorkerCrash

StallSpec == InitStall /\ [][NextStall]_vars /\ WF_vars(HttpStep)

-----------------------------------------------------------------------------
(* What the claims speak of.                                               *)

SetMin(S) == CHOOSE x \in S : \A y \in S : x <= y
SetMax(S) == CHOOSE x \in S : \A y \in S : x >= y

\* s without its leading and trailing whitespace.
Trimmed(s) ==
    LET keep == {i \in 1..Len(s) : s[i] \notin Whitespace}
    IN  IF keep = {} THEN <<>> ELSE SubSeq(s, SetMin(keep), SetMax(keep))

\* The first value a form body gives a field; "" for a field that is absent.
FirstValue(body, key) ==
    LET at == {i \in 1..Len(body) : body[i].k = key}
    IN  IF at = {} THEN <<>> ELSE body[SetMin(at)].v

\* The first value that is not empty.
FirstNonBlank(body, key) ==
    LET at == {i \in 1..Len(body) : body[i].k = key /\ body[i].v # <<>>}
    IN  IF at = {} THEN <<>> ELSE body[SetMin(at)].v

\* The places of the sink that hold a Record of connection c.
EntriesOf(c) == {i \in 1..Len(sink) : sink[i].conn = c}

IsSubmission(r) == req[r].method = "POST" /\ req[r].path = "/message"

\* The insert of connection c was attempted and failed.
InsertFailed(c) == hpc[c] = "closed" /\ ncall[c] > 0 /\ EntriesOf(c) = {}

-----------------------------------------------------------------------------
(* C1 *)

C1_Matches(r, i) ==
    /\ sink[i].doc.username = Trimmed(FirstNonBlank(req[r].body, "username"))
    /\ sink[i].doc.message = Trimmed(FirstNonBlank(req[r].body, "message"))

C1_Stored(r) ==
    /\ Cardinality(EntriesOf(r)) = 1
    /\ \A i \in EntriesOf(r) : C1_Matches(r, i)

C1_Safe ==
    \A r \in Reqs :
        resp[r] = <<302>> =>
            /\ Cardinality(EntriesOf(r)) <= 1
            /\ \A i \in EntriesOf(r) : C1_Matches(r, i)

\* What the code gives a POST /message whose relay succeeded (answered 302):
\* while the worker keeps running and the insert is not refused, exactly one
\* Record of that request, whose username and message are the trimmed first
\* non-empty values of the form fields ("" for a field without one), and never
\* a second Record of the request.
RelayedOnce ==
    /\ []C1_Safe
    /\ \A r \in 1..NumLive :
        (resp[r] = <<302>>) ~> (C1_Stored(r) \/ wstate = "dead" \/ InsertFailed(r))

\* A submission whose first username is empty was relayed and stored.
BlankFirstStored ==
    \E r \in Reqs :
        /\ resp[r] = <<302>>
        /\ req[r].body = FormBlankFirst
        /\ C1_Stored(r)

\* C1 (as stated): a POST /message whose relay succeeded never has a second
\* Record, and the username and message of its Record are the trimmed first
\* values of the form fields ("" for a field that is absent).
C1_FirstValues ==
    \A r \in Reqs :
        resp[r] = <<302>> =>
            /\ Cardinality(EntriesOf(r)) <= 1
            /\ \A i \in EntriesOf(r) :
                /\ sink[i].doc.username = Trimmed(FirstValue(req[r].body, "username"))
                /\ sink[i].doc.message = Trimmed(FirstValue(req[r].body, "message"))

-----
(* C2 *)

\* Nothing more happens for request r: it is answered and its connection, if
\* it got one, is done with.
Settled(r) ==
    /\ rpc[r] = "done"
    /\ cst[r] = "none" \/ hpc[r] \in {"closed", "crashed", "killed"}

SubmittedPair(r) ==
    <<Trimmed(FirstNonBlank(req[r].body, "username")),
      Trimmed(FirstNonBlank(req[r].body, "message"))>>

StoredPair(i) == <<sink[i].doc.username, sink[i].doc.message>>

\* The pairs of the sink are, with their multiplicities, those of the requests in S.
SinkHoldsPairsOf(S) ==
    \A p \in {SubmittedPair(r) : r \in Reqs} \cup {StoredPair(i) : i \in 1..Len(sink)} :
        Cardinality({i \in 1..Len(sink) : StoredPair(i) = p})
            = Cardinality({r \in S : SubmittedPair(r) = p})

\* What the code gives simultaneous POST /message requests, under every
\* interleaving of the HTTP threads, the accept loop and the handlers, and the
\* sink accepting every insert: each request whose relay succeeds (302) has
\* exactly one corresponding Record and none has two; a request whose connect
\* is still waiting on the full listen queue when the timeout fires is answered
\* 500 and has no Record; so the multiset of inserted pairs is that of the
\* trimmed pairs of the requests answered 302.
RelayedStored ==
    /\ \A i \in 1..Len(sink) : sink[i].conn \in Reqs
    /\ \A r \in Reqs :
        /\ Cardinality(EntriesOf(r)) <= 1
        /\ \A i \in EntriesOf(r) : StoredPair(i) = SubmittedPair(r)
        /\ Settled(r) /\ resp[r] = <<302>> => Cardinality(EntriesOf(r)) = 1
        /\ rpc[r] = "done" /\ cst[r] = "none" =>
              resp[r] = <<500>> /\ EntriesOf(r) = {}
    /\ (\A r \in Reqs : Settled(r)) =>
          SinkHoldsPairsOf({r \in Reqs : resp[r] = <<302>>})

\* C2 (as stated): of simultaneous POST /message requests, under every
\* interleaving and with the sink accepting every insert, each produces exactly
\* one corresponding Record: the multiset of inserted pairs is that of the
\* submitted trimmed pairs, without duplicate or loss.
C2_EachStored ==
    /\ \A r \in Reqs :
          Settled(r) =>
              /\ Cardinality(EntriesOf(r)) = 1
              /\ \A i \in EntriesOf(r) : StoredPair(i) = SubmittedPair(r)
    /\ (\A r \in Reqs : Settled(r)) => SinkHoldsPairsOf(Reqs)

\* All submissions of the burst are settled; one timed out on the full listen
\* queue and every other one is stored.
BurstWithTimeout ==
    /\ \A r \in Reqs : Settled(r)
    /\ \E r \in Reqs : resp[r] = <<500>> /\ cst[r] = "none"
    /\ Len(sink) = NumBurst - 1

-----------------------------------------------------------------------------
(* C3 *)

\* The connect of request r ended without a connection.
ConnectFailed(r) == nconn[r] > 0 /\ cst[r] = "none" /\ rpc[r] = "done"

C3_NoRecord ==
    \A r \in Reqs :
        ConnectFailed(r) =>
            resp[r] = <<500>> /\ EntriesOf(r) = {} /\ ncall[r] = 0 /\ wire[r] = <<>>

C3_Refused ==
    \A r \in Reqs :
        rpc[r] = "idle" /\ nconn'[r] = 1 /\ wstate # "listening" =>
            resp'[r] = <<500>> /\ cst'[r] = "none" /\ rpc'[r] = "done"

\* C3: a POST /message that finds the worker unreachable (not yet listening,
\* crashed or terminated: the connect fails) is answered 500, and no Record of
\* that request is ever written.
C3_Unreachable == []C3_NoRecord /\ [][C3_Refused]_vars

\* A submission found the worker dead and was answered 500.
C3_Witness ==
    \E r \in Reqs :
        ConnectFailed(r) /\ wstate = "dead" /\ mpc = "serving" /\ resp[r] = <<500>>

-----------------------------------------------------------------------------
(* C4 *)

\* Bytes that are empty or no JSON text: something in them is no JSON token,
\* or an object is not closed.
NotJson(bytes) ==
    \/ bytes = <<>>
    \/ \E i \in 1..Len(bytes) : bytes[i].t \in {"junk", "bad"}
    \/ bytes[1].t = "{" /\ bytes[Len(bytes)].t # "}"

\* The handler of c has left its read loop: it has read the peer's EOF.
ReadToEof(c) == hpc[c] \in {"inserting", "closed", "crashed"}

\* C4: a client of the TCP listener that sends a payload that is empty or no
\* JSON and closes its write side is processed: the handler makes one insert
\* attempt with a Record whose username and message are both empty, and never
\* ends without it.
C4_EmptyRecord ==
    \A c \in Conns :
        ReadToEof(c) /\ NotJson(chunks[c]) =>
            /\ hpc[c] # "crashed"
            /\ ncall[c] = 1
            /\ doc[c].username = <<>> /\ doc[c].message = <<>>
            /\ \A i \in EntriesOf(c) : sink[i].doc = doc[c]

\* A client sent junk, another nothing; both were given their Record.
C4_Witness ==
    \E c, e \in Directs :
        /\ hpc[c] = "closed" /\ chunks[c] = <<Junk>> /\ EntriesOf(c) # {}
        /\ hpc[e] = "closed" /\ chunks[e] = <<>> /\ EntriesOf(e) # {}

-----------------------------------------------------------------------------
(* C5 *)

C5_Ready ==
    /\ \A c \in Conns : hpc[c] = "inserting" => ENABLED InsertOk(c)
    /\ wstate = "listening" /\ backlog # <<>> => ENABLED Accept
    /\ \A c \in Conns :
          hpc[c] = "closed" =>
              \/ EntriesOf(c) = {}
              \/ \E i \in 1..Len(sink) : EntriesOf(c) = {i} /\ sink[i].doc = doc[c]

C5_Discarded ==
    \A c \in Conns :
        hpc[c] = "inserting" /\ hpc'[c] \notin {"inserting", "killed"} =>
            /\ hpc'[c] = "closed"
            /\ \/ sink' = Append(sink, [doc |-> doc[c], conn |-> c])
               \/ /\ sink' = sink
                  /\ wstate' = wstate /\ handles' = handles
                  /\ backlog' = backlog /\ cst' = cst
                  /\ \A e \in Conns \ {c} : hpc'[e] = hpc[e]

\* C5: an insert that fails is discarded: the connection is closed as after a
\* success, nothing of the worker changes (it listens, accepts and its other
\* handlers go on as before), and after any number of failures a connection
\* whose insert succeeds has its Record in the sink.
C5_InsertFailureDiscarded == []C5_Ready /\ [][C5_Discarded]_vars

\* An insert failed, and a connection made later was stored.
C5_Witness ==
    \E c, e \in Conns :
        /\ c < e
        /\ InsertFailed(c)
        /\ hpc[e] = "closed" /\ EntriesOf(e) # {}
        /\ wstate = "listening"

-----------------------------------------------------------------------------
(* C6 *)

\* The payload of request r was written in full and its connection closed.
RelayComplete(r) ==
    /\ cst[r] # "none"
    /\ eof[r]
    /\ cst[r] = "reset" \/ chunks[r] \o wire[r] = Payload(r)

\* C6 (as stated): every POST /message gets exactly one response, 302 or 500,
\* and 302 only with the whole payload written and the connection closed.
C6_OneResponse ==
    \A r \in Reqs :
        IsSubmission(r) /\ rpc[r] \in {"done", "crashed"} =>
            /\ Len(resp[r]) = 1
            /\ resp[r][1] \in {302, 500}
            /\ resp[r] = <<302>> => RelayComplete(r)
            /\ ~RelayComplete(r) => resp[r] = <<500>>

-----------------------------------------------------------------------------
(* C7 *)

ListedRoute(q) ==
    \/ q.method = "GET" /\ q.path \in {"/", "/index.html", "/message.html",
                                        "/style.css", "/logo.png"}
    \/ q.method = "POST" /\ q.path = "/message"

\* C7: only a POST to /message relays: a GET of any path and a POST to another
\* path open no connection to the worker and cause no Record, and a request
\* outside the routes is answered 404, whatever was handled before it.
C7_OnlySubmissionsRelay ==
    /\ \A i \in 1..Len(sink) : IsSubmission(sink[i].conn)
    /\ \A r \in Reqs :
        rpc[r] # "idle" =>
            /\ ~IsSubmission(r) =>
                  /\ nconn[r] = 0 /\ cst[r] = "none" /\ hpc[r] = "none"
                  /\ wire[r] = <<>> /\ EntriesOf(r) = {}
            /\ ~ListedRoute(req[r]) => resp[r] = <<404>>

\* After a submission was relayed, a POST to another path got its 404.
C7_Witness ==
    \E r, q \in Reqs :
        /\ r < q
        /\ resp[r] = <<302>>
        /\ req[q].method = "POST" /\ req[q].path = "/" /\ resp[q] = <<404>>

-----------------------------------------------------------------------------
(* C8 *)

\* Connection s is open and its peer has not closed its write side.
Stalled(s) == cst[s] \in {"pending", "accepted"} /\ ~eof[s]

\* What does hold of stalled connections: while they are open the accept loop
\* takes the next connection, and the handler of every other connection can
\* read, reach the end of its payload and have its insert return.
StallsDoNotBlock ==
    \A s \in Conns :
        Stalled(s) =>
            /\ wstate = "listening" /\ backlog # <<>> => ENABLED Accept
            /\ \A c \in Conns \ {s} :
                /\ hpc[c] = "reading" /\ wire[c] # <<>> => ENABLED Recv(c)
                /\ hpc[c] = "reading" /\ ReadDone(c) => ENABLED RecvEof(c)
                /\ hpc[c] = "inserting" => ENABLED InsertOk(c)

\* C8 (as stated): while stalled connections are open, every other connection
\* that arrives is accepted, read to EOF and given its insert attempt: a
\* handler that has ended has called the insert once.
C8_OthersServed ==
    \A s, c \in Conns :
        s # c /\ Stalled(s) /\ hpc[c] \in {"closed", "crashed"} => ncall[c] = 1

-----------------------------------------------------------------------------
(* C9 *)

InRelay(r) == rpc[r] \in {"blocked", "connected", "sent"}

NextToArrive(q) == rpc[q] = "idle" /\ \A r \in Reqs : r < q => rpc[r] # "idle"

\* C9: while a POST /message is in its relay, another request is taken and
\* answered at once (a GET, a POST to another path) or starts a relay of its
\* own, and a relay of another request goes on.
C9_NoSerialization ==
    \A r, q \in Reqs :
        InRelay(r) /\ q # r =>
            /\ mpc = "serving" /\ NextToArrive(q) =>
                  /\ ENABLED (\E inp \in HttpInputs, e \in BOOLEAN : Get(q, inp, e, e))
                  /\ ENABLED (\E inp \in HttpInputs : PostNotFound(q, inp, TRUE))
                  /\ ENABLED (\E inp \in HttpInputs : PostRelay(q, inp))
            /\ rpc[q] = "connected" => ENABLED SendAll(q)
            /\ rpc[q] = "sent" => ENABLED CloseRespond(q, TRUE)

\* A request that arrived later was answered while the first was in its relay.
C9_Witness ==
    \E r, q \in Reqs :
        r < q /\ rpc[r] \in {"connected", "sent"} /\ rpc[q] = "done" /\ Len(resp[q]) = 1

-----------------------------------------------------------------------------
(* C10 *)

C10_AtMostOne ==
    /\ \A r \in Reqs : nconn[r] <= 1
    /\ \A c \in Conns : ncall[c] <= 1

C10_NoSecond ==
    /\ \A r \in Reqs :
        /\ nconn'[r] # nconn[r] => rpc[r] = "idle"
        /\ rpc[r] = "done" => rpc'[r] = "done" /\ resp'[r] = resp[r]
    /\ \A c \in Conns :
        /\ ncall'[c] # ncall[c] => hpc[c] = "reading"
        /\ hpc[c] = "closed" => hpc'[c] = "closed"

\* C10: nothing is retried: a POST /message makes at most one connection
\* attempt, also after a failure, and a connection leads to at most one call of
\* the sink's insert, also after the insert failed.
C10_NoRetry == []C10_AtMostOne /\ [][C10_NoSecond]_vars

\* A relay failed after its one attempt, and an insert failed after its one call.
C10_Witness ==
    /\ \E r \in Reqs : resp[r] = <<500>> /\ nconn[r] = 1
    /\ \E c \in Conns : InsertFailed(c) /\ ncall[c] = 1

-----------------------------------------------------------------------------
(* C11 *)

\* Whether the bytes are the text of a JSON object.
IsObjectText(bytes) ==
    /\ Len(bytes) >= 2
    /\ bytes[1].t = "{" /\ bytes[Len(bytes)].t = "}"
    /\ \A i \in 2..(Len(bytes) - 1) : bytes[i].t = "member"

\* The trimmed text the payload carries for a key: that of the member of this
\* key that counts (the last one) when it is a string, "" when the key is
\* absent, its value no text, or the payload no object.
Carried(bytes, key) ==
    LET at == {i \in 1..Len(bytes) : bytes[i].t = "member" /\ bytes[i].k = key}
    IN  IF ~IsObjectText(bytes) \/ at = {} THEN <<>>
        ELSE IF bytes[SetMax(at)].ty = "str" THEN Trimmed(bytes[SetMax(at)].s)
        ELSE <<>>

C11_Shape ==
    \A i \in 1..Len(sink) :
        LET c == sink[i].conn IN
        /\ DOMAIN sink[i].doc = {"date", "username", "message"}
        /\ sink[i].doc.username = Carried(chunks[c], "username")
        /\ sink[i].doc.message = Carried(chunks[c], "message")
        /\ sink[i].doc.date \in Nat
        /\ sink[i].doc.date >= 1 /\ sink[i].doc.date <= clock
        /\ sink[i].doc = doc[c]

C11_DateAtIngest ==
    \A c \in Conns : doc'[c] # doc[c] => doc'[c].date = clock

\* C11: every Record in the sink has exactly the fields date, username and
\* message; username and message are the trimmed values of the one payload
\* received on the Record's connection ("" for an absent key or a malformed
\* payload), and date is the reading of the worker's clock when the document
\* was built, never a value of the payload.
C11_RecordShape == []C11_Shape /\ [][C11_DateAtIngest]_vars

\* A payload with a date key and padded fields was stored, after the clock
\* had advanced.
C11_Witness ==
    \E i \in 1..Len(sink) :
        /\ \E j \in 1..Len(chunks[sink[i].conn]) : chunks[sink[i].conn][j].k = "date"
        /\ sink[i].doc.username = <<"a">> /\ sink[i].doc.message = <<"b">>
        /\ sink[i].doc.date = 2

-----------------------------------------------------------------------------
(* C12 *)

\* The steps of a handler thread that the code does take: in order, but for
\* the thread that an AttributeError ends while it builds the document, and
\* the threads that end with the worker process.
HandlerSteps ==
    \A c \in Conns :
        hpc'[c] # hpc[c] =>
            \/ hpc[c] = "none" /\ hpc'[c] = "reading" /\ cst'[c] = "accepted"
            \/ hpc[c] = "reading" /\ hpc'[c] = "inserting" /\ ReadDone(c)
            \/ hpc[c] = "reading" /\ hpc'[c] = "crashed" /\ ReadDone(c)
            \/ hpc[c] = "inserting" /\ hpc'[c] = "closed"
            \/ hpc[c] \in {"reading", "inserting"} /\ hpc'[c] = "killed"

OrderButForRaise == [][HandlerSteps]_vars

\* C12 (as stated): a connection of the worker goes through accepted, reading,
\* decoded, insert attempted, closed in this order: the insert is attempted
\* only after the peer's EOF was read, the handler closes the connection only
\* after its insert attempt, and no state is skipped.
C12_InOrder ==
    \A c \in Conns :
        /\ hpc[c] # "none" => cst[c] \in {"accepted", "reset"}
        /\ hpc[c] \in {"none", "reading"} => ncall[c] = 0
        /\ hpc[c] = "inserting" => ReadDone(c) /\ ncall[c] = 1
        /\ hpc[c] = "closed" => ReadDone(c) /\ ncall[c] = 1
        /\ hpc[c] # "crashed"

-----------------------------------------------------------------------------
(* C13 *)

C13_OneHandle ==
    /\ handles <= 1
    /\ wstate \in {"notstarted", "starting"} => handles = 0
    /\ wstate = "listening" => handles = 1
    /\ \A c \in Conns : hpc[c] # "none" => handles = 1

C13_BuiltBeforeAccept ==
    handles' # handles =>
        /\ handles = 0 /\ handles' = 1
        /\ wstate = "starting" /\ wstate' = "listening"
        /\ \A c \in Conns : hpc[c] = "none" /\ cst[c] = "none"

\* C13: the worker process builds its sink handle once, before it accepts its
\* first connection, and that handle is the only one there ever is: no
\* handler builds, replaces or closes one, so every insert of every
\* connection uses it.
C13_SingleHandle == []C13_OneHandle /\ [][C13_BuiltBeforeAccept]_vars

\* Two connections had their insert, a failed one among them, on the one handle.
C13_Witness ==
    /\ handles = 1
    /\ \E c, e \in Conns :
        c # e /\ InsertFailed(c) /\ hpc[e] = "closed" /\ EntriesOf(e) # {}

-----------------------------------------------------------------------------
(* C14 *)

\* A thread of the worker is at work on connection c.
InFlight(c) == hpc[c] \in {"reading", "inserting"}

C14_Lifecycle ==
    /\ mpc = "boot" <=> wstate = "notstarted"
    /\ mpc = "boot" => \A r \in Reqs : rpc[r] = "idle"
    /\ mpc = "closing" => ENABLED Finalize
    /\ mpc = "exited" =>
          /\ wstate = "dead"
          /\ backlog = <<>>
          /\ \A c \in Conns : ~InFlight(c) /\ cst[c] \notin {"pending", "accepted"}

C14_StartedOnce ==
    /\ wstate' = "starting" /\ wstate # "starting" =>
          wstate = "notstarted" /\ mpc = "boot" /\ mpc' = "serving"
    /\ wstate = "dead" => wstate' = "dead"
    /\ mpc = "exited" => mpc' = "exited"
    /\ mpc = "closing" /\ mpc' # "closing" => mpc' = "exited" /\ wstate' = "dead"

\* C14: the worker process is started once, at boot, before the HTTP server
\* serves a request, and a worker that has ended is never started again; once
\* the HTTP server has left its serve loop the finally block terminates the
\* worker, whatever its handlers are at, and after it no worker runs.
C14_ProcessLifecycle == []C14_Lifecycle /\ [][C14_StartedOnce]_vars

\* The server has shut down while a handler was in flight: the worker is dead
\* and the handler ended with it.
C14_Witness ==
    /\ mpc = "exited" /\ wstate = "dead"
    /\ \E c \in Conns : hpc[c] = "killed" /\ ncall[c] = 1 /\ EntriesOf(c) = {}

-----------------------------------------------------------------------------
(* C15 *)

\* Request r has its one response, 302 or 500, and its thread is done.
Answered(r) ==
    rpc[r] = "done" /\ Len(resp[r]) = 1 /\ resp[r][1] \in {302, 500}

C15_TimeoutReady ==
    \A r \in Reqs :
        /\ rpc[r] = "blocked" => ENABLED ConnectTimeout(r)
        /\ rpc[r] = "connected" => ENABLED SendAll(r)
        /\ rpc[r] = "sent" => ENABLED CloseRespond(r, TRUE)
        /\ rpc[r] = "done" => Answered(r)

\* C15: every POST /message whose body was received ends with one response,
\* 302 or 500, whatever the worker does: a connect that waits on a worker that
\* does not accept is ended by the timeout and answered 500, and no handler
\* thread stays in its relay forever.
C15_AlwaysAnswered ==
    /\ []C15_TimeoutReady
    /\ \A r \in 1..NumLive : (rpc[r] # "idle") ~> Answered(r)

\* The worker listens but has accepted nothing; a connect that found the
\* listen queue full was answered 500.
C15_Witness ==
    \E r \in Reqs :
        /\ wstate = "listening" /\ Len(backlog) = Backlog
        /\ \A c \in Conns : hpc[c] = "none"
        /\ nconn[r] = 1
        /\ rpc[r] = "done" /\ cst[r] = "none" /\ resp[r] = <<500>>

-----------------------------------------------------------------------------
(* C16 *)

\* C16 (as stated): a POST /message answered 500 never has a Record, also when
\* the relay failed after the connection was established.
C16_NoRecordOn500 ==
    \A r \in Reqs : resp[r] = <<500>> => EntriesOf(r) = {}

-----------------------------------------------------------------------------
(* C17 *)

\* C17 (as stated): whatever the payload, the handler of an accepted
\* connection whose peer has closed its write side goes on to the insert and
\* makes one insert attempt with text for username and message.
C17_AlwaysInsert ==
    \A c \in Conns :
        cst[c] = "accepted" /\ ReadDone(c) /\ hpc[c] # "reading" =>
            /\ hpc[c] \in {"inserting", "closed"}
            /\ ncall[c] = 1
            /\ doc[c].username \in Seq({" ", "\n", "a", "b", "0", "1", "5", "x"})
            /\ doc[c].message \in Seq({" ", "\n", "a", "b", "0", "1", "5", "x"})

-----------------------------------------------------------------------------
(* C18 *)

\* A step of the worker on the connection of request r: accept, recv, decode,
\* the insert and its outcome.
WorkerActsOn(r) ==
    \/ hpc'[r] # hpc[r] /\ hpc'[r] # "killed"
    \/ chunks'[r] # chunks[r]
    \/ doc'[r] # doc[r]
    \/ ncall'[r] # ncall[r]
    \/ EntriesOf(r)' # EntriesOf(r)

C18_NothingComesBack ==
    \A r \in Reqs :
        /\ WorkerActsOn(r) =>
              /\ resp' = resp /\ rpc' = rpc /\ req' = req /\ nconn' = nconn
              /\ eof' = eof
        /\ resp[r] # <<>> => resp'[r] = resp[r]

C18_ResponseReady ==
    \A r \in Reqs :
        rpc[r] = "sent" =>
            /\ ENABLED CloseRespond(r, TRUE)
            /\ resp[r] = <<>>

\* C18: the response to a POST /message does not depend on what the worker
\* does with the bytes: no step of the worker on the connection (decode,
\* insert, its success or failure) changes anything the Front Door reads or
\* has written, the 302 can be written as soon as the payload is sent,
\* whatever the handler is at, and a response once written stays.
C18_ResponseIndependent ==
    []C18_ResponseReady /\ [][C18_NothingComesBack]_vars

\* Two submissions answered 302: the insert of one failed, the other is stored.
C18_Witness ==
    \E r, q \in Reqs :
        /\ resp[r] = <<302>> /\ resp[q] = <<302>>
        /\ InsertFailed(r)
        /\ hpc[q] = "closed" /\ EntriesOf(q) # {}

-----------------------------------------------------------------------------
(* C19 *)

\* C19: nothing orders concurrent submissions: while the handler of an
\* earlier connection is at work the accept loop starts the handler of a later
\* one, which may take its date and have its insert return first.
C19_NoOrder ==
    \A c, e \in Conns :
        c < e =>
            /\ wstate = "listening" /\ InFlight(c) /\ backlog # <<>>
                  /\ Head(backlog) = e => ENABLED Accept
            /\ InFlight(c) /\ hpc[e] = "reading" /\ ReadDone(e) => ENABLED RecvEof(e)
            /\ InFlight(c) /\ hpc[e] = "inserting" => ENABLED InsertOk(e)

\* The Record of the second POST is in the sink before that of the first,
\* and the Record with the later date arrived first.
C19_Witness ==
    /\ Len(sink) = 2
    /\ sink[1].conn \in Reqs /\ sink[2].conn \in Reqs
    /\ sink[1].conn > sink[2].conn
    /\ sink[1].doc.date > sink[2].doc.date

====
